---- MODULE Spec2Model ----
(***************************************************************************)
(* A model of the joj ledger: blocks chained by hash, proof-of-work        *)
(* mining, the pending-transaction queue, balance aggregation, the         *)
(* Success/Failure validation pipelines, appends whose statements          *)
(* interleave, deepFreeze, and the Network's timer and emitter.            *)
(*                                                                         *)
(* A digest is modelled as a record that keeps the hashed field values      *)
(* ("of": two digests are equal exactly when the hashed fields are, which   *)
(* is collision resistance) together with the number of leading hex zeros   *)
(* of its 64-character hex form ("zeros"), a fixed pseudo-random function   *)
(* of the hashed fields.                                                    *)
(***************************************************************************)
EXTENDS Integers, Sequences, FiniteSets, TLC

VARIABLES
    chain,                \* Blockchain.blocks(): the ledger's blocks, genesis first
    pendingTransactions,  \* Blockchain.pendingTransactions
    now,                  \* the clock Date.now() reads
    nextOid,              \* object identity of the next Transaction created
    hist,                 \* the calls made on the ledger and the clock's ticks so far, in order
    ret,                  \* the last call, its inputs and what it returned
    signLog,              \* the senders of the transactions sign() was invoked on
    tampered,             \* the field assignment made behind the ledger's back, if any
    appends,              \* the append operations in progress on the ledger, per caller
    freezer,              \* the object graph deepFreeze runs on and the frames of its calls
    network               \* the Network: its miner nodes, its timers and its emitter

vars == <<chain, pendingTransactions, now, nextOid, hist, ret, signLog, tampered,
          appends, freezer, network>>

\* The state of the ledger, and the rest
ledger == <<chain, pendingTransactions, now, nextOid, hist, ret, signLog, tampered>>

-----------------------------------------------------------------------------
(* Bounds of the model *)

MaxBlocks == 4
MaxSteps == 5
MaxDifficulty == 3
MaxObjects == 3
MaxNodes == 2

(* Program constants *)

MINING_DIFFICULTY == 2
MINING_REWARD_SCORE == 100
HASH_LENGTH == 64
DEFAULT_DIFFICULTY == 2

Null == "null"
Addresses == {"A", "B"}

-----------------------------------------------------------------------------
(* Hashes *)

\* '0'.repeat(64): the previousHash of a genesis block
GenesisSentinel == [kind |-> "sentinel", len |-> HASH_LENGTH, zeros |-> HASH_LENGTH, of |-> <<>>]

\* this.hash = undefined
UndefinedHash == [kind |-> "undefined", len |-> 0, zeros |-> 0, of |-> <<>>]

RECURSIVE SumAmounts(_)
SumAmounts(txs) ==
    IF txs = <<>> THEN 0 ELSE Head(txs).amount + SumAmounts(Tail(txs))

\* The number of leading '0' characters of the hex digest of the given field
\* values: a fixed function of them that takes every value 0..MaxDifficulty,
\* in no monotone order, as the nonce runs through MaxDifficulty + 1
\* consecutive integers.
LeadingZeros(timestamp, previousHash, nonce, txs) ==
    LET m == (2 * timestamp + previousHash.zeros + 3 * Len(txs) + SumAmounts(txs) + nonce)
                 % (MaxDifficulty + 1)
    IN  IF m % 2 = 0 THEN m \div 2 ELSE MaxDifficulty - (m \div 2)

\* HasHash(['timestamp', 'previousHash', 'nonce', 'pendingTransactions']).calculateHash
\* seen as a function: the digest of the block's hashed fields, in that order
BlockDigest(b) ==
    [kind  |-> "digest",
     len   |-> HASH_LENGTH,
     zeros |-> LeadingZeros(b.timestamp, b.previousHash, b.nonce, b.pendingTransactions),
     of    |-> <<b.timestamp, b.previousHash, b.nonce, b.pendingTransactions>>]

\* block.calculateHash() as addBlockTo uses it: the call's result is dropped,
\* so the block's hash is what the call leaves in the hash field
calculateHash(b) == [b EXCEPT !.hash = BlockDigest(b)]

\* hash.startsWith(''.padStart(difficulty, '0'))
startsWithZeros(hash, difficulty) == hash.zeros >= difficulty

-----------------------------------------------------------------------------
(* Transactions *)

\* HasHash(['timestamp', 'sender', 'recipient', 'funds']).calculateHash
TransactionDigest(tx) == <<tx.timestamp, tx.sender, tx.recipient, tx.amount>>

NoSignature == [by |-> "none", over |-> <<>>]

\* new Transaction(sender, recipient, funds): hashed at once, not signed
Transaction(oid, sender, recipient, amount, timestamp) ==
    LET fields == [oid |-> oid, sender |-> sender, recipient |-> recipient,
                   amount |-> amount, timestamp |-> timestamp]
    IN  [oid       |-> oid,
         sender    |-> sender,
         recipient |-> recipient,
         amount    |-> amount,
         timestamp |-> timestamp,
         hash      |-> TransactionDigest(fields),
         signature |-> NoSignature,
         frozen    |-> FALSE]

\* HasSignature(['sender', 'recipient', 'funds']).sign(privateKey): the
\* signature of those fields made with the key of `owner`
sign(tx, owner) == [by |-> owner, over |-> <<tx.sender, tx.recipient, tx.amount>>]

\* verify(publicKey of the sender, signature) over the same fields
verifySignature(tx) ==
    /\ tx.signature.by = tx.sender
    /\ tx.signature.over = <<tx.sender, tx.recipient, tx.amount>>

-----------------------------------------------------------------------------
(* Blocks *)

\* The block constructor: nonce 0, difficulty 2, timestamp Date.now(),
\* hash undefined until computed. The object is an ordinary one:
\* Object.isFrozen(block) is false ("frozen") until something freezes it.
TransactionalBlock(id, previousHash, txs, timestamp) ==
    [id                  |-> id,
     previousHash        |-> previousHash,
     pendingTransactions |-> txs,
     difficulty          |-> DEFAULT_DIFFICULTY,
     nonce               |-> 0,
     timestamp           |-> timestamp,
     hash                |-> UndefinedHash,
     frozen              |-> FALSE]

isGenesis(b) == b.previousHash = GenesisSentinel

\* One call of proofOfWork(block, prefix, nonce): the nonce is stored and the
\* hash recomputed; the call returns the block when the hash starts with the
\* prefix, and otherwise calls itself with nonce + 1
proofOfWorkStep(block, nonce) == calculateHash([block EXCEPT !.nonce = nonce])

RECURSIVE proofOfWork(_, _, _)
proofOfWork(block, difficulty, nonce) ==
    LET b == proofOfWorkStep(block, nonce)
    IN  IF startsWithZeros(b.hash, difficulty)
        THEN b
        ELSE proofOfWork(b, difficulty, nonce + 1)

\* Block.mine() that starts the search one past the block's nonce
mineArguments_SkipFirst(b) == [block |-> b, difficulty |-> b.difficulty, nonce |-> b.nonce + 1]

\* Block.mine(): the arguments of its call
\* proofOfWork(this, ''.padStart(this.difficulty, '0'), this.nonce)
mineArguments(b) == [block |-> b, difficulty |-> b.difficulty, nonce |-> b.nonce]

mine(b) ==
    LET a == mineArguments(b)
    IN  proofOfWork(a.block, a.difficulty, a.nonce)

\* BlockLogic.mineBlock(difficulty, block)
mineBlock(difficulty, b) == proofOfWork(b, difficulty, b.nonce)

-----------------------------------------------------------------------------
(* The ledger *)

\* new Blockchain(): the genesis block alone
GenesisBlock == calculateHash(TransactionalBlock(0, GenesisSentinel, <<>>, 0))

last(blockchain) == blockchain[Len(blockchain)]

\* Blockchain.push(block): point the block at the current last block, give it
\* its position, append it
push(blockchain, b) ==
    Append(blockchain,
           [b EXCEPT !.previousHash = last(blockchain).hash, !.id = Len(blockchain)])

NotFound == [found |-> FALSE]

\* Blockchain.lookUp(hash): the block with that hash, or the not-found signal
lookUp(blockchain, hash) ==
    IF \E i \in 1..Len(blockchain) : blockchain[i].hash = hash
    THEN [found |-> TRUE,
          block |-> blockchain[CHOOSE i \in 1..Len(blockchain) : blockchain[i].hash = hash]]
    ELSE NotFound

\* addBlockTo without its first statement: the hash is taken before the
\* block points at the last block
addBlockTo_NoLink(blockchain, newBlock) ==
    push(blockchain, calculateHash(newBlock))

addBlockTo(blockchain, newBlock) ==
    LET linked == [newBlock EXCEPT !.previousHash = last(blockchain).hash]
        hashed == calculateHash(linked)
    IN  push(blockchain, hashed)

mineBlockTo(blockchain, newBlock) ==
    LET linked == [newBlock EXCEPT !.previousHash = last(blockchain).hash]
        mined  == mineBlock(MINING_DIFFICULTY, linked)
    IN  push(blockchain, mined)

\* isChainValid: every block after the first carries the digest of its own
\* fields and points at the hash of the block before it
isChainValid(blockchain) ==
    \A i \in 2..Len(blockchain) :
        /\ blockchain[i].hash = BlockDigest(blockchain[i])
        /\ blockchain[i].previousHash = blockchain[i - 1].hash

\* minePendingTransactions that adds the reward to the pending transactions
\* instead of replacing them
minePendingTransactions_NoReset(blockchain, pending, miningRewardAddress, oid, timestamp) ==
    [chain   |-> mineBlockTo(blockchain, TransactionalBlock(0, UndefinedHash, pending, timestamp)),
     pending |-> Append(pending,
                        Transaction(oid, Null, miningRewardAddress, MINING_REWARD_SCORE, timestamp))]

\* minePendingTransactions: mine a block holding the pending transactions,
\* then leave the miner's reward as the only pending transaction
minePendingTransactions(blockchain, pending, miningRewardAddress, oid, timestamp) ==
    [chain   |-> mineBlockTo(blockchain, TransactionalBlock(0, UndefinedHash, pending, timestamp)),
     pending |-> <<Transaction(oid, Null, miningRewardAddress, MINING_REWARD_SCORE, timestamp)>>]

\* The transaction Network.loadFunds builds: from nobody to the wallet, signed
\* with the wallet's private key
loadFundsTransaction(oid, wallet, funds, timestamp) ==
    LET first == Transaction(oid, Null, wallet, funds, timestamp)
    IN  [first EXCEPT !.signature = sign(first, wallet)]

-----------------------------------------------------------------------------
(* Balances *)

\* All transactions sealed in the blocks of the chain, in order
RECURSIVE Sealed(_)
Sealed(blockchain) ==
    IF blockchain = <<>>
    THEN <<>>
    ELSE Sealed(SubSeq(blockchain, 1, Len(blockchain) - 1))
             \o last(blockchain).pendingTransactions


TypeError == [threw |-> TRUE, amount |-> 0]

Money(amount) == [threw |-> FALSE, amount |-> amount]

\* Money.nothing()
Money_nothing == Money(0)

\* Money.add
Money_add(a, b) == Money(a.amount + b.amount)

\* concat, as reduce applies it to the accumulator and the next element
concat(a, b) == a \o b

\* array.reduce(concat), with no initial value: the array must not be empty
RECURSIVE reduceConcat(_)
reduceConcat(arrays) ==
    IF Len(arrays) = 1
    THEN arrays[1]
    ELSE concat(reduceConcat(SubSeq(arrays, 1, Len(arrays) - 1)), arrays[Len(arrays)])

\* Array.prototype.split(pred1, pred2): [this.filter(pred1), this.filter(pred2)]
split(txs, address) ==
    <<SelectSeq(txs, LAMBDA tx : tx.sender = address),
      SelectSeq(txs, LAMBDA tx : tx.recipient = address)>>

\* Array.prototype.multiMap(fn1, fn2) of a pair of arrays: the first mapped
\* by fn1, followed by the second mapped by fn2
flatBiMap(pair) ==
    [i \in 1..Len(pair[1]) |-> Money(-pair[1][i].amount)]
        \o [i \in 1..Len(pair[2]) |-> Money(pair[2][i].amount)]

\* array.reduce(Money.add, Money.nothing())
RECURSIVE reduceAdd(_, _)
reduceAdd(monies, acc) ==
    IF monies = <<>> THEN acc ELSE reduceAdd(Tail(monies), Money_add(acc, Head(monies)))

\* calculateBalanceOfAddress with the two groups taken for each other
calculateBalanceOfAddress_Swapped(blockchain, address) ==
    LET nonGenesis == SelectSeq(blockchain, LAMBDA b : ~isGenesis(b))
        groups == [i \in 1..Len(nonGenesis) |-> nonGenesis[i].pendingTransactions]
        pair == split(reduceConcat(groups), address)
    IN  IF groups = <<>>
        THEN TypeError
        ELSE reduceAdd(flatBiMap(<<pair[2], pair[1]>>), Money_nothing)

calculateBalanceOfAddress(blockchain, address) ==
    LET nonGenesis == SelectSeq(blockchain, LAMBDA b : ~isGenesis(b))
        groups == [i \in 1..Len(nonGenesis) |-> nonGenesis[i].pendingTransactions]
    IN  IF groups = <<>>
        THEN TypeError   \* Reduce of empty array with no initial value
        ELSE reduceAdd(flatBiMap(split(reduceConcat(groups), address)), Money_nothing)

-----------------------------------------------------------------------------
(* Validation results and the two validation pipelines *)

\* Success.of(a), Failure.of(b); what a result carries is tagged with its
\* kind: <<"true">>, <<"entity", e>> or <<"error", message>>
Success(a) == [tag |-> "Success", val |-> a]
Failure(b) == [tag |-> "Failure", val |-> <<"error", b>>]

\* What the caller gets when an exception is thrown instead
Thrown(message) == [tag |-> "Thrown", val |-> <<"error", message>>]

\* Validation.of(value) == Success.of(value)
Validation_of(value) == Success(<<"entity", value>>)

\* The steps of Transaction.isValid, each a function from what the Success
\* before it carries to a result
checkSignature(tx) ==
    IF tx.sender = Null \/ verifySignature(tx)
    THEN Success(<<"entity", tx>>)
    ELSE Failure("Transaction signature is invalid")

checkTampering(tx) ==
    IF tx.hash = TransactionDigest(tx)
    THEN Success(<<"entity", tx>>)
    ELSE Failure("Transaction hash is invalid")

TransactionStep(name, tx) ==
    CASE name = "checkSignature" -> checkSignature(tx)
      [] name = "checkTampering" -> checkTampering(tx)
      [] OTHER -> Success(<<"true">>)     \* () => Success.of(true)

\* flatMap on prototypes mixed in without Failure.SHORT_CIRCUIT: on a Failure
\* it runs this.map(f).get(), and Failure.get() throws
flatMap_NoShortCircuit(m, name) ==
    IF m.v.tag = "Success"
    THEN [v |-> TransactionStep(name, m.v.val[2]), applied |-> Append(m.applied, name)]
    ELSE [v |-> Thrown("Can't extract the value of a Failure"), applied |-> m.applied]

\* Monad(shortCircuit).flatMap(f): a Failure (short circuit) returns itself,
\* f is not called; a Success returns this.map(f).get(), which is f(value).
\* m.applied lists the steps called so far.
flatMap(m, name) ==
    IF m.v.tag = "Failure"
    THEN m
    ELSE [v |-> TransactionStep(name, m.v.val[2]), applied |-> Append(m.applied, name)]

\* Transaction.isValid()
Transaction_isValid(tx) ==
    flatMap(flatMap(flatMap([v |-> Validation_of(tx), applied |-> <<>>],
                            "checkSignature"),
                    "checkTampering"),
            "toTrue")

\* The checks of Block.isValid, in the order of its array
BlockChecks ==
    <<"checkLength", "checkNoTampering", "checkDifficulty", "checkLinkage", "checkTimestamps">>

\* One check of a block against the block found for its previousHash
BlockCheck(name, b, previous) ==
    CASE name = "checkLength"      -> b.hash.len = HASH_LENGTH
      [] name = "checkNoTampering" -> b.hash = BlockDigest(b)
      [] name = "checkDifficulty"  -> startsWithZeros(b.hash, b.difficulty)
      [] name = "checkLinkage"     -> previous.found /\ b.previousHash = previous.block.hash
      [] OTHER                     -> previous.found /\ b.timestamp >= previous.block.timestamp

\* checks.every(f => f(this)): the checks are called in order up to the first
\* that returns false
RECURSIVE every(_, _, _)
every(checks, b, previous) ==
    IF checks = <<>>
    THEN [ok |-> TRUE, applied |-> <<>>]
    ELSE IF ~BlockCheck(Head(checks), b, previous)
         THEN [ok |-> FALSE, applied |-> <<Head(checks)>>]
         ELSE LET rest == every(Tail(checks), b, previous)
              IN  [ok |-> rest.ok, applied |-> <<Head(checks)>> \o rest.applied]

\* Block.isValid() without the genesis branch
Block_isValid_NoGenesisBranch(b, blockchain) ==
    LET previous == lookUp(blockchain, b.previousHash)
        run == every(BlockChecks, b, previous)
    IN  [result  |-> IF run.ok
                     THEN Success(<<"true">>)
                     ELSE Failure(<<"Validation failed for block", b.hash>>),
         lookUps |-> <<b.previousHash>>,
         applied |-> run.applied]

\* Block.isValid() with the two outcomes of its last statement exchanged
Block_isValid_Exchanged(b, blockchain) ==
    IF isGenesis(b)
    THEN [result |-> Success(<<"true">>), lookUps |-> <<>>, applied |-> <<>>]
    ELSE LET previous == lookUp(blockchain, b.previousHash)
             run == every(BlockChecks, b, previous)
         IN  [result  |-> IF ~run.ok
                          THEN Success(<<"true">>)
                          ELSE Failure(<<"Validation failed for block", b.hash>>),
              lookUps |-> <<b.previousHash>>,
              applied |-> run.applied]

\* Block.isValid(): the result, the hashes looked up in the ledger and the
\* checks called
Block_isValid(b, blockchain) ==
    IF isGenesis(b)
    THEN [result |-> Success(<<"true">>), lookUps |-> <<>>, applied |-> <<>>]
    ELSE LET previous == lookUp(blockchain, b.previousHash)
             run == every(BlockChecks, b, previous)
         IN  [result  |-> IF run.ok
                          THEN Success(<<"true">>)
                          ELSE Failure(<<"Validation failed for block", b.hash>>),
              lookUps |-> <<b.previousHash>>,
              applied |-> run.applied]

-----------------------------------------------------------------------------
NoTamper == [index |-> 0, field |-> "none"]

\* The callers that append to the ledger
Writers == {1, 2}

\* No append in progress
NoAppends == [of |-> [w \in Writers |-> [pc |-> "idle"]], stale |-> {}]

\* deepFreeze not called
NoFreeze == [pc |-> "none"]

\* No Network made
NoNetwork == [pc |-> "none"]

Init ==
    /\ chain = <<GenesisBlock>>
    /\ pendingTransactions = <<>>
    /\ now = 0
    /\ nextOid = 1
    /\ hist = <<>>
    /\ ret = [op |-> "new Blockchain"]
    /\ signLog = {}
    /\ tampered = NoTamper
    /\ appends = NoAppends
    /\ freezer = NoFreeze
    /\ network = NoNetwork

\* Date.now() moves on
Tick ==
    /\ Len(hist) < MaxSteps
    /\ now' = now + 1
    /\ hist' = Append(hist, <<"tick">>)
    /\ UNCHANGED <<chain, pendingTransactions, nextOid, ret, signLog, tampered>>
    /\ UNCHANGED <<appends, freezer, network>>

AddBlockTo ==
    /\ Len(hist) < MaxSteps
    /\ Len(chain) < MaxBlocks
    /\ LET newBlock == TransactionalBlock(0, UndefinedHash, <<>>, now)
       IN  /\ chain' = addBlockTo(chain, newBlock)
           /\ ret' = [op |-> "addBlockTo", block |-> last(chain')]
    /\ hist' = Append(hist, <<"addBlockTo">>)
    /\ UNCHANGED <<pendingTransactions, now, nextOid, signLog, tampered>>
    /\ UNCHANGED <<appends, freezer, network>>

MineBlockTo ==
    /\ Len(hist) < MaxSteps
    /\ Len(chain) < MaxBlocks
    /\ LET newBlock == TransactionalBlock(0, UndefinedHash, <<>>, now)
       IN  /\ chain' = mineBlockTo(chain, newBlock)
           /\ ret' = [op |-> "mineBlockTo", block |-> last(chain')]
    /\ hist' = Append(hist, <<"mineBlockTo">>)
    /\ UNCHANGED <<pendingTransactions, now, nextOid, signLog, tampered>>
    /\ UNCHANGED <<appends, freezer, network>>

\* The transfers offered to the ledger, as sender, recipient, amount: an
\* issuance from nobody, a payment between two addresses, a payment of an
\* address to itself
TransferInputs == {<<Null, "B", 4>>, <<"A", "B", 4>>, <<"A", "A", 4>>}

\* Blockchain.addPendingTransaction(tx) of a transaction its sender, if it has
\* one, signed
AddPendingTransaction ==
    /\ Len(hist) < MaxSteps
    /\ \E io \in TransferInputs :
        LET tx == Transaction(nextOid, io[1], io[2], io[3], now)
            signed == IF io[1] = Null THEN tx ELSE [tx EXCEPT !.signature = sign(tx, io[1])]
        IN  /\ pendingTransactions' = Append(pendingTransactions, signed)
            /\ signLog' = IF io[1] = Null THEN signLog ELSE signLog \cup {io[1]}
            /\ hist' = Append(hist, <<"addPendingTransaction", io[1], io[2]>>)
            /\ ret' = [op |-> "addPendingTransaction", tx |-> signed]
    /\ nextOid' = nextOid + 1
    /\ UNCHANGED <<chain, now, tampered>>
    /\ UNCHANGED <<appends, freezer, network>>

MinePendingTransactions ==
    /\ Len(hist) < MaxSteps
    /\ Len(chain) < MaxBlocks
    /\ \E miner \in Addresses :
        LET r == minePendingTransactions(chain, pendingTransactions, miner, nextOid, now)
        IN  /\ chain' = r.chain
            /\ pendingTransactions' = r.pending
            /\ hist' = Append(hist, <<"minePendingTransactions", miner>>)
            /\ ret' = [op |-> "minePendingTransactions", miner |-> miner,
                       pendingBefore |-> pendingTransactions, sizeBefore |-> Len(chain),
                       chainBefore |-> chain,
                       block |-> last(r.chain)]
    /\ nextOid' = nextOid + 1
    /\ UNCHANGED <<now, signLog, tampered>>
    /\ UNCHANGED <<appends, freezer, network>>

\* Network.loadFunds(wallet, funds): issue the funds to the wallet in a
\* transaction signed with the wallet's key, enqueue it, and mine the pending
\* transactions with the wallet as the miner
LoadFunds ==
    /\ Len(hist) < MaxSteps
    /\ Len(chain) < MaxBlocks
    /\ \E wallet \in Addresses, funds \in {4} :
        LET first == loadFundsTransaction(nextOid, wallet, funds, now)
            r == minePendingTransactions(chain, Append(pendingTransactions, first),
                                         wallet, nextOid + 1, now)
        IN  /\ signLog' = signLog \cup {first.sender}
            /\ chain' = r.chain
            /\ pendingTransactions' = r.pending
            /\ hist' = Append(hist, <<"loadFunds", wallet>>)
            /\ ret' = [op |-> "loadFunds", wallet |-> wallet, tx |-> first,
                       block |-> last(r.chain)]
    /\ nextOid' = nextOid + 2
    /\ UNCHANGED <<now, tampered>>
    /\ UNCHANGED <<appends, freezer, network>>

Next ==
    \/ Tick
    \/ AddBlockTo
    \/ MineBlockTo
    \/ AddPendingTransaction
    \/ MinePendingTransactions
    \/ LoadFunds

Spec == Init /\ [][Next]_vars

-----------------------------------------------------------------------------
(* Validation, and assignments made to a block in the chain from outside *)

\* The ledger's operations, on a budget that leaves room for what follows.
\* A validation changes nothing, so what may follow it is what may follow
\* the state before it.
Build ==
    /\ Len(hist) < MaxSteps - 2
    /\ tampered = NoTamper
    /\ ret.op \notin {"Block.isValid", "Transaction.isValid"}
    /\ \/ Tick
       \/ AddBlockTo
       \/ MineBlockTo
       \/ AddPendingTransaction
       \/ MinePendingTransactions
       \/ LoadFunds

\* A transaction nobody submitted
ForgedTransaction == Transaction(0, Null, "A", MINING_REWARD_SCORE, 0)

\* The values an assignment block.field = value may store: values other than
\* the field's current one
TamperValues(b, field) ==
    CASE field = "id"                  -> {b.id + 1}
      [] field = "previousHash"        ->
            ({GenesisSentinel} \cup {chain[j].hash : j \in 1..Len(chain)}) \ {b.previousHash}
      [] field = "nonce"               -> {b.nonce + 1}
      [] field = "difficulty"          -> {0, b.difficulty + 1}
      [] field = "timestamp"           -> {b.timestamp + 1}
      [] field = "pendingTransactions" -> {Append(b.pendingTransactions, ForgedTransaction)}
      [] field = "pendingTransactions[0].amount" ->
            IF b.pendingTransactions = <<>>
            THEN {}
            ELSE {b.pendingTransactions[1].amount + 1}
      [] OTHER                         -> {BlockDigest([b EXCEPT !.nonce = b.nonce + 1])}

TamperFields ==
    {"id", "previousHash", "nonce", "difficulty", "timestamp", "pendingTransactions", "hash",
     "pendingTransactions[0].amount"}

\* obj[name] = value in strict mode (module code): a TypeError and no change
\* when the object is frozen, the value stored otherwise
assign(obj, name, value) ==
    IF obj.frozen
    THEN [threw |-> TRUE, obj |-> obj]
    ELSE [threw |-> FALSE, obj |-> [obj EXCEPT ![name] = value]]

\* block.field = value, or block.pendingTransactions[0].amount = value, on a
\* block of the chain, its hash not recomputed (as the tests do with
\* block.hash, block.data and block.data.amount)
Tamper ==
    /\ tampered = NoTamper
    /\ ret.op \notin {"Block.isValid", "Transaction.isValid"}
    /\ \E i \in 1..Len(chain), field \in TamperFields :
        \E v \in TamperValues(chain[i], field) :
            LET r == IF field = "pendingTransactions[0].amount"
                     THEN LET inner == assign(chain[i].pendingTransactions[1], "amount", v)
                          IN  [threw |-> inner.threw,
                               obj   |-> [chain[i] EXCEPT !.pendingTransactions[1] = inner.obj]]
                     ELSE assign(chain[i], field, v)
            IN  /\ chain' = [chain EXCEPT ![i] = r.obj]
                /\ tampered' = [index |-> i, field |-> field, threw |-> r.threw,
                                before |-> chain[i]]
    /\ UNCHANGED <<pendingTransactions, now, nextOid, hist, ret, signLog>>
    /\ UNCHANGED <<appends, freezer, network>>

\* A mined block that points at a hash no block of the ledger has
OrphanBlock ==
    mineBlock(MINING_DIFFICULTY,
              TransactionalBlock(Len(chain),
                                 BlockDigest(TransactionalBlock(0, GenesisSentinel, <<>>, now + 1)),
                                 <<>>, now))

\* The blocks validated: the block that was assigned to, if one was, and
\* otherwise any block of the chain and the orphan block
BlocksToValidate ==
    IF tampered = NoTamper
    THEN {chain[i] : i \in 1..Len(chain)} \cup {OrphanBlock}
    ELSE {chain[tampered.index]}

\* block.isValid()
ValidateBlock ==
    /\ ret.op \notin {"Block.isValid", "Transaction.isValid"}
    /\ \E b \in BlocksToValidate :
        LET r == Block_isValid(b, chain)
        IN  ret' = [op |-> "Block.isValid", block |-> b, result |-> r.result,
                    lookUps |-> r.lookUps, applied |-> r.applied]
    /\ UNCHANGED <<chain, pendingTransactions, now, nextOid, hist, signLog, tampered>>
    /\ UNCHANGED <<appends, freezer, network>>

\* The transactions validated: those of the ledger, as they are, or with one
\* field assigned since they were hashed and signed
TransactionVariants(tx) ==
    {tx,
     [tx EXCEPT !.amount = tx.amount + 1],
     [tx EXCEPT !.timestamp = tx.timestamp + 1],
     [tx EXCEPT !.signature = sign(tx, "B")]}

\* tx.isValid()
ValidateTransaction ==
    /\ ret.op \notin {"Block.isValid", "Transaction.isValid"}
    /\ tampered = NoTamper
    /\ \E i \in 1..Len(Sealed(chain) \o pendingTransactions) :
        \E tx \in TransactionVariants((Sealed(chain) \o pendingTransactions)[i]) :
            LET r == Transaction_isValid(tx)
            IN  ret' = [op |-> "Transaction.isValid", tx |-> tx, result |-> r.v,
                        applied |-> r.applied]
    /\ UNCHANGED <<chain, pendingTransactions, now, nextOid, hist, signLog, tampered>>
    /\ UNCHANGED <<appends, freezer, network>>

NextValidation ==
    \/ Build
    \/ Tamper
    \/ ValidateBlock
    \/ ValidateTransaction

SpecValidation == Init /\ [][NextValidation]_vars

-----------------------------------------------------------------------------
(* Mining a block, one proofOfWork call at a time *)

\* The blocks mined: new blocks of every difficulty 0..MaxDifficulty, made at
\* different times, with and without transactions, pointing at the genesis
\* block or at nothing yet
MineInputs ==
    { [TransactionalBlock(1, prev, txs, t) EXCEPT !.difficulty = d] :
        d \in 0..MaxDifficulty,
        t \in 0..MaxSteps,
        prev \in {GenesisBlock.hash, UndefinedHash},
        txs \in {<<>>, <<Transaction(1, Null, "A", MINING_REWARD_SCORE, 0)>>} }

InitMine ==
    /\ chain = <<GenesisBlock>>
    /\ pendingTransactions = <<>>
    /\ now = 0
    /\ nextOid = 1
    /\ hist = <<>>
    /\ signLog = {}
    /\ tampered = NoTamper
    /\ appends = NoAppends
    /\ freezer = NoFreeze
    /\ network = NoNetwork
    /\ \E b \in MineInputs :
        ret = [op |-> "mine", input |-> b, done |-> FALSE, block |-> b,
               difficulty |-> mineArguments(b).difficulty,
               nonce |-> mineArguments(b).nonce]

\* One call of proofOfWork on behalf of block.mine()
MineStep ==
    /\ ret.op = "mine"
    /\ ~ret.done
    /\ LET b == proofOfWorkStep(ret.block, ret.nonce)
       IN  ret' = IF startsWithZeros(b.hash, ret.difficulty)
                  THEN [ret EXCEPT !.block = b, !.done = TRUE]
                  ELSE [ret EXCEPT !.block = b, !.nonce = ret.nonce + 1]
    /\ UNCHANGED <<chain, pendingTransactions, now, nextOid, hist, signLog, tampered>>
    /\ UNCHANGED <<appends, freezer, network>>

NextMine == MineStep

\* proofOfWork is a loop without suspension points: a call that was made runs
SpecMine == InitMine /\ [][NextMine]_vars /\ WF_vars(MineStep)

-----------------------------------------------------------------------------
(* Appends by two callers whose statements interleave *)

\* What a caller asks for: mineBlockTo of a new block, or
\* minePendingTransactions for a miner
AppendRequests ==
    {[op |-> "mineBlockTo", miner |-> Null]}
    \cup {[op |-> "minePendingTransactions", miner |-> m] : m \in Addresses}

\* The appends that have not pushed their block yet
AppendsBeforePush == {w \in Writers : appends.of[w].pc \in {"linked", "mined"}}

\* The same without mineBlockTo's first statement: the block is mined before
\* it points at any block
AppendLink_NoRead(w) ==
    /\ appends.of[w].pc = "idle"
    /\ Len(chain) + Cardinality(AppendsBeforePush) < MaxBlocks
    /\ \E rq \in AppendRequests :
        LET txs      == IF rq.op = "mineBlockTo" THEN <<>> ELSE pendingTransactions
            newBlock == TransactionalBlock(0, UndefinedHash, txs, now)
        IN  appends' = [appends EXCEPT !.of[w] =
                            [pc |-> "linked", op |-> rq.op, miner |-> rq.miner,
                             block |-> newBlock, sizeAtLink |-> Len(chain)]]
    /\ UNCHANGED <<ledger, freezer, network>>

\* The caller builds its block (of the pending transactions it reads, for
\* minePendingTransactions) and mineBlockTo runs its first statement,
\* newBlock.previousHash = blockchain.last().hash
AppendLink(w) ==
    /\ appends.of[w].pc = "idle"
    /\ Len(chain) + Cardinality(AppendsBeforePush) < MaxBlocks
    /\ \E rq \in AppendRequests :
        LET txs      == IF rq.op = "mineBlockTo" THEN <<>> ELSE pendingTransactions
            newBlock == TransactionalBlock(0, UndefinedHash, txs, now)
            linked   == [newBlock EXCEPT !.previousHash = last(chain).hash]
        IN  appends' = [appends EXCEPT !.of[w] =
                            [pc |-> "linked", op |-> rq.op, miner |-> rq.miner,
                             block |-> linked, sizeAtLink |-> Len(chain)]]
    /\ UNCHANGED <<ledger, freezer, network>>

\* newBlock = BlockLogic.mineBlock(MINING_DIFFICULTY, newBlock)
AppendMine(w) ==
    /\ appends.of[w].pc = "linked"
    /\ appends' = [appends EXCEPT !.of[w].pc = "mined",
                                   !.of[w].block = mineBlock(MINING_DIFFICULTY, @)]
    /\ UNCHANGED <<ledger, freezer, network>>

\* blockchain.push(newBlock). "stale" records the positions of the blocks
\* pushed after another block was pushed since their caller read last().hash
AppendPush(w) ==
    /\ appends.of[w].pc = "mined"
    /\ chain' = push(chain, appends.of[w].block)
    /\ appends' = [appends EXCEPT !.of[w].pc = "pushed",
                                   !.stale = IF appends.of[w].sizeAtLink < Len(chain)
                                             THEN @ \cup {Len(chain) + 1}
                                             ELSE @]
    /\ UNCHANGED <<pendingTransactions, now, nextOid, hist, ret, signLog, tampered,
                   freezer, network>>

\* mineBlockTo returns; minePendingTransactions then leaves the miner's reward
\* as the only pending transaction
AppendReturn(w) ==
    /\ appends.of[w].pc = "pushed"
    /\ IF appends.of[w].op = "minePendingTransactions"
       THEN /\ pendingTransactions' =
                    <<Transaction(nextOid, Null, appends.of[w].miner, MINING_REWARD_SCORE, now)>>
            /\ nextOid' = nextOid + 1
       ELSE UNCHANGED <<pendingTransactions, nextOid>>
    /\ appends' = [appends EXCEPT !.of[w] = [pc |-> "idle"]]
    /\ UNCHANGED <<chain, now, hist, ret, signLog, tampered, freezer, network>>

NextAppend ==
    \/ \E w \in Writers : AppendLink(w)
    \/ \E w \in Writers : AppendMine(w)
    \/ \E w \in Writers : AppendPush(w)
    \/ \E w \in Writers : AppendReturn(w)

SpecAppend == Init /\ [][NextAppend]_vars

-----------------------------------------------------------------------------
(* deepFreeze(obj), one call or one Object.freeze at a time *)

\* The objects of the graph. An edge o -> c is an own enumerable property of
\* o whose value is the object c (a block's blockchain, a ledger's blocks);
\* properties with primitive values are left out, deepFreeze returns from a
\* primitive at once (Object.isFrozen of a primitive is true).
Objects == 1..MaxObjects

\* The frames the engine's call stack has room for
StackLimit == MaxObjects + 2

\* Object.keys(obj), as the values of the properties, in their order
RECURSIVE ObjectKeys(_)
ObjectKeys(children) ==
    IF children = {}
    THEN <<>>
    ELSE LET first == CHOOSE c \in children : \A d \in children : c <= d
         IN  <<first>> \o ObjectKeys(children \ {first})

\* Object.isFrozen(obj)
isFrozen(obj) == obj \in freezer.frozen

\* Every graph over the objects; the objects are as their constructors made
\* them, none frozen; obj 1 is the argument of the call
InitFreeze ==
    /\ chain = <<GenesisBlock>>
    /\ pendingTransactions = <<>>
    /\ now = 0
    /\ nextOid = 1
    /\ hist = <<>>
    /\ ret = [op |-> "deepFreeze"]
    /\ signLog = {}
    /\ tampered = NoTamper
    /\ appends = NoAppends
    /\ network = NoNetwork
    /\ \E edges \in [Objects -> SUBSET Objects] :
        freezer = [pc |-> "ready", edges |-> edges, obj |-> 1, frozen |-> {}, stack |-> <<>>]

\* A call deepFreeze(obj) made with the frames `stack` below it: it returns
\* at once when obj is frozen; otherwise its frame holds the properties
\* forEach has still to visit. A call the stack has no room for throws
\* RangeError, which nothing catches.
deepFreezeCall(stack, obj) ==
    IF isFrozen(obj)
    THEN [freezer EXCEPT !.stack = stack,
                         !.pc = IF stack = <<>> THEN "returned" ELSE "running"]
    ELSE IF Len(stack) >= StackLimit
         THEN [freezer EXCEPT !.stack = <<>>, !.pc = "RangeError"]
         ELSE [freezer EXCEPT !.stack = Append(stack, [obj  |-> obj,
                                                       todo |-> ObjectKeys(freezer.edges[obj])]),
                              !.pc = "running"]

\* The caller's deepFreeze(obj)
DeepFreeze ==
    /\ freezer.pc = "ready"
    /\ freezer' = deepFreezeCall(<<>>, freezer.obj)
    /\ UNCHANGED <<ledger, appends, network>>

\* forEach(name => deepFreeze(obj[name])): the call for the next property
DeepFreezeProperty ==
    /\ freezer.pc = "running"
    /\ LET top == freezer.stack[Len(freezer.stack)]
       IN  /\ top.todo # <<>>
           /\ freezer' = deepFreezeCall(
                             [freezer.stack EXCEPT ![Len(freezer.stack)].todo = Tail(top.todo)],
                             Head(top.todo))
    /\ UNCHANGED <<ledger, appends, network>>

\* Object.freeze(obj); return obj
ObjectFreeze ==
    /\ freezer.pc = "running"
    /\ LET top  == freezer.stack[Len(freezer.stack)]
           rest == SubSeq(freezer.stack, 1, Len(freezer.stack) - 1)
       IN  /\ top.todo = <<>>
           /\ freezer' = [freezer EXCEPT !.frozen = @ \cup {top.obj},
                                          !.stack = rest,
                                          !.pc = IF rest = <<>> THEN "returned" ELSE "running"]
    /\ UNCHANGED <<ledger, appends, network>>

NextFreeze ==
    \/ DeepFreeze
    \/ DeepFreezeProperty
    \/ ObjectFreeze

\* A call that was made runs: nothing suspends it
SpecFreeze == InitFreeze /\ [][NextFreeze]_vars /\ WF_vars(NextFreeze)

-----------------------------------------------------------------------------
(* The Network: miner nodes, the timer of start() and the emitter *)

\* new Network(): no node, no timer, an emitter without listeners, a new
\* ledger. "timers" are the intervals setInterval made and clearInterval has
\* not cleared; intervalId 0 is undefined. "stopped" says that stop() has
\* returned and no call was made on the network since.
InitNetwork ==
    /\ chain = <<GenesisBlock>>
    /\ pendingTransactions = <<>>
    /\ now = 0
    /\ nextOid = 1
    /\ hist = <<>>
    /\ ret = [op |-> "new Network"]
    /\ signLog = {}
    /\ tampered = NoTamper
    /\ appends = NoAppends
    /\ freezer = NoFreeze
    /\ network = [pc |-> "made", nodes |-> <<>>, listeners |-> {}, intervalId |-> 0,
                  timers |-> {}, nextTimer |-> 1, calls |-> 0, stopped |-> FALSE,
                  emittedAfterStop |-> FALSE, triggeredAfterStop |-> FALSE]

\* Network.calculateRandomDifficulty(): getRandomInteger(1, 4), which is
\* Math.floor(Math.random() * 3) + 1
RandomDifficulties == 1..3

\* new Node(displayName, address, difficulty, emitter, minerFn): the node
\* listens to MINE_BLOCK on the emitter
NodeListens(listeners, node) == listeners \cup {node}

\* addMinerNode(displayName, address): throws when MAX_NODES nodes exist,
\* otherwise makes a node that mines for the address and keeps it
AddMinerNode ==
    /\ network.pc = "made"
    /\ network.calls < MaxSteps
    /\ IF Len(network.nodes) >= MaxNodes
       THEN network' = [network EXCEPT !.calls = @ + 1, !.stopped = FALSE]
       ELSE \E address \in Addresses, difficulty \in RandomDifficulties :
                network' = [network EXCEPT
                    !.nodes = Append(@, [address |-> address, difficulty |-> difficulty]),
                    !.listeners = NodeListens(@, Len(network.nodes) + 1),
                    !.calls = @ + 1,
                    !.stopped = FALSE]
    /\ UNCHANGED <<ledger, appends, freezer>>

\* start(): this.#intervalId = setInterval(...): a new timer, whose id
\* replaces the one kept
Start ==
    /\ network.pc = "made"
    /\ network.calls < MaxSteps
    /\ network' = [network EXCEPT !.timers = @ \cup {network.nextTimer},
                                   !.intervalId = network.nextTimer,
                                   !.nextTimer = @ + 1,
                                   !.calls = @ + 1,
                                   !.stopped = FALSE]
    /\ UNCHANGED <<ledger, appends, freezer>>

\* stop(): removeAllListeners(), then clearInterval(this.#intervalId)
Stop ==
    /\ network.pc = "made"
    /\ network.calls < MaxSteps
    /\ network' = [network EXCEPT !.listeners = {},
                                   !.timers = @ \ {network.intervalId},
                                   !.calls = @ + 1,
                                   !.stopped = TRUE]
    /\ UNCHANGED <<ledger, appends, freezer>>

\* The miner functions of the nodes that listen, called in the order the
\* nodes were added: each mines the pending transactions for its address
RECURSIVE minerFns(_, _, _, _, _)
minerFns(from, blockchain, pending, oid, timestamp) ==
    IF from > Len(network.nodes)
    THEN [chain |-> blockchain, pending |-> pending]
    ELSE IF from \in network.listeners
         THEN LET r == minePendingTransactions(blockchain, pending,
                                               network.nodes[from].address, oid, timestamp)
              IN  minerFns(from + 1, r.chain, r.pending, oid + 1, timestamp)
         ELSE minerFns(from + 1, blockchain, pending, oid, timestamp)

\* A timer of start() fires: emitter.emit('MINE_BLOCK'), which calls every
\* listener
MineBlockEvent ==
    /\ network.pc = "made"
    /\ network.timers # {}
    /\ Len(chain) + Cardinality(network.listeners) <= MaxBlocks
    /\ LET r == minerFns(1, chain, pendingTransactions, nextOid, now)
       IN  /\ chain' = r.chain
           /\ pendingTransactions' = r.pending
    /\ nextOid' = nextOid + Cardinality(network.listeners)
    /\ network' = [network EXCEPT
            !.emittedAfterStop = @ \/ network.stopped,
            !.triggeredAfterStop = @ \/ (network.stopped /\ network.listeners # {})]
    /\ UNCHANGED <<now, hist, ret, signLog, tampered, appends, freezer>>

NextNetwork ==
    \/ AddMinerNode
    \/ Start
    \/ Stop
    \/ MineBlockEvent

SpecNetwork == InitNetwork /\ [][NextNetwork]_vars

-----------------------------------------------------------------------------
(* Claims about the ledger's operations, checked under Spec *)

\* The calls made so far, the clock's ticks left out
Calls == SelectSeq(hist, LAMBDA e : e[1] # "tick")

Occurrences(txs, oid) == Cardinality({i \in 1..Len(txs) : txs[i].oid = oid})

C4_Scenario ==
    Calls = << <<"addPendingTransaction", Null, "B">>,
               <<"minePendingTransactions", "A">>,
               <<"minePendingTransactions", "A">>,
               <<"minePendingTransactions", "A">> >>

\* C4 as stated: after the scenario the balance of A is 300, the balance of B
\* is 4 and the chain is valid
C4_BalanceThreeRewards ==
    C4_Scenario =>
        /\ calculateBalanceOfAddress(chain, "A") = Money(3 * MINING_REWARD_SCORE)
        /\ calculateBalanceOfAddress(chain, "B") = Money(4)
        /\ isChainValid(chain)

\* C4, amended: after the scenario the balance of A is 200, because the
\* reward of the third call is still pending and sealed in no block; the
\* balance of B is 4 and the chain is valid
C4_BalanceTwoRewards ==
    C4_Scenario =>
        /\ calculateBalanceOfAddress(chain, "A") = Money(2 * MINING_REWARD_SCORE)
        /\ calculateBalanceOfAddress(chain, "B") = Money(4)
        /\ isChainValid(chain)
        /\ Len(pendingTransactions) = 1
        /\ pendingTransactions[1].recipient = "A"
        /\ pendingTransactions[1].amount = MINING_REWARD_SCORE

C4_Witness == C4_Scenario /\ Len(chain) = 4

\* C5: a minePendingTransactions(ledger, miner) call appends exactly one
\* block, whose transactions are the transactions pending at the call, in
\* their order; afterwards exactly one transaction is pending, from nobody
\* to the miner, of the fixed reward; and every transaction ever created for
\* the ledger is either still pending or sealed in exactly one block, once
C5_MinePending ==
    /\ ret.op = "minePendingTransactions" =>
        /\ Len(chain) = ret.sizeBefore + 1
        /\ SubSeq(chain, 1, ret.sizeBefore) = ret.chainBefore
        /\ last(chain).pendingTransactions = ret.pendingBefore
        /\ Len(pendingTransactions) = 1
        /\ pendingTransactions[1].sender = Null
        /\ pendingTransactions[1].recipient = ret.miner
        /\ pendingTransactions[1].amount = MINING_REWARD_SCORE
    /\ \A oid \in 1..(nextOid - 1) :
        Occurrences(Sealed(chain) \o pendingTransactions, oid) = 1

C5_Witness ==
    /\ ret.op = "minePendingTransactions"
    /\ Len(ret.pendingBefore) >= 2
    /\ ret.pendingBefore[1].sender = Null
    /\ ret.pendingBefore[2].sender # Null
    /\ Len(chain) >= 3

\* The fields C2 names
C2_Fields == {"id", "previousHash", "nonce", "difficulty", "timestamp", "pendingTransactions"}

\* C2: once one of these fields of a block after the genesis block was
\* assigned another value, its hash left as it was, isChainValid is false
C2_TamperDetected ==
    (tampered.index >= 2 /\ tampered.field \in C2_Fields) => ~isChainValid(chain)

\* What holds of the code: the same for the fields that are hashed
HashedFieldTamperDetected ==
    (tampered.index >= 2
        /\ tampered.field \in {"previousHash", "nonce", "timestamp", "pendingTransactions"})
    => ~isChainValid(chain)

C3_MinedBlock ==
    (ret.op = "mine" /\ ret.done) =>
        /\ ret.block.hash = BlockDigest(ret.block)
        /\ ret.block.hash.zeros >= ret.input.difficulty
        /\ ret.block = [ret.input EXCEPT !.nonce = ret.block.nonce, !.hash = ret.block.hash]
        /\ ret.block.nonce >= 0
        /\ \A n \in 0..(ret.block.nonce - 1) :
            ~startsWithZeros(BlockDigest([ret.input EXCEPT !.nonce = n]), ret.input.difficulty)

RECURSIVE NetAmount(_, _)
NetAmount(txs, address) ==
    IF txs = <<>>
    THEN 0
    ELSE (IF Head(txs).recipient = address THEN Head(txs).amount ELSE 0)
         - (IF Head(txs).sender = address THEN Head(txs).amount ELSE 0)
         + NetAmount(Tail(txs), address)

\* C6: for every ledger, the ledger of the genesis block alone included, and
\* every address, the balance is Money.nothing() plus that sum
C6_BalanceIsSum ==
    \A address \in Addresses :
        calculateBalanceOfAddress(chain, address)
            = Money(NetAmount(Sealed(Tail(chain)), address))

\* What holds of the code: the same, for every ledger that holds a block
\* after the genesis block
BalanceIsSumPastGenesis ==
    Len(chain) > 1 =>
        \A address \in Addresses :
            calculateBalanceOfAddress(chain, address)
                = Money(NetAmount(Sealed(Tail(chain)), address))

\* Whether the checks of Transaction.isValid hold of a transaction
SignatureHolds(tx) == tx.sender = Null \/ verifySignature(tx)
HashHolds(tx) == tx.hash = TransactionDigest(tx)

\* The checks of Block.isValid that fail for the block validated last
FailingBlockChecks ==
    {k \in 1..Len(BlockChecks) :
        ~BlockCheck(BlockChecks[k], ret.block, lookUp(chain, ret.block.previousHash))}

C9_MissIsFailure ==
    (ret.op = "Block.isValid"
        /\ ~isGenesis(ret.block)
        /\ ~lookUp(chain, ret.block.previousHash).found)
    => ret.result.tag = "Failure"

C10_NullSenderNeverSigned ==
    /\ Null \notin signLog
    /\ \A i \in 1..Len(Sealed(chain) \o pendingTransactions) :
        LET tx == (Sealed(chain) \o pendingTransactions)[i]
        IN  tx.sender = Null => tx.signature = NoSignature

-----------------------------------------------------------------------------
(* Claims about frozen objects *)

\* The assignments C11 names: to the block's hash, and to a field of the
\* data nested in the block
C11_Fields == {"hash", "pendingTransactions[0].amount"}

\* C11: an assignment made to the hash, or to a field of the nested data, of
\* a block that addBlockTo or mineBlockTo put in the chain raises TypeError
\* and leaves the block as it was
C11_AssignmentThrows ==
    (tampered.index >= 2 /\ tampered.field \in C11_Fields)
    => (tampered.threw /\ chain[tampered.index] = tampered.before)

-----------------------------------------------------------------------------
(* Claims about appends that interleave, checked under SpecAppend *)

\* Two blocks of the chain carry the same previousHash
SharedPreviousHash ==
    \E i, j \in 1..Len(chain) : i < j /\ chain[i].previousHash = chain[j].previousHash

\* Some block does not point at the hash of the block before it
LinkageBroken == \E i \in 2..Len(chain) : chain[i].previousHash # chain[i - 1].hash

FirstStale == CHOOSE i \in appends.stale : \A j \in appends.stale : i <= j

-----------------------------------------------------------------------------
(* Claims about deepFreeze, checked under SpecFreeze *)

\* The objects reachable from obj through properties
RECURSIVE ReachableFrom(_, _)
ReachableFrom(seen, edges) ==
    LET more == seen \cup UNION {edges[o] : o \in seen}
    IN  IF more = seen THEN seen ELSE ReachableFrom(more, edges)

\* Some object reachable from the argument reaches itself
OnCycle ==
    \E o \in ReachableFrom({freezer.obj}, freezer.edges) :
        o \in ReachableFrom(freezer.edges[o], freezer.edges)

\* C13: deepFreeze(obj) ends by returning, never in a RangeError of the
\* exhausted stack, whatever the graph, and once it has returned obj and
\* every object reachable from it are frozen
C13_DeepFreezeTerminates ==
    /\ freezer.pc # "RangeError"
    /\ freezer.pc = "returned" =>
            ReachableFrom({freezer.obj}, freezer.edges) \subseteq freezer.frozen

\* What holds of the code: the call returns with everything reachable frozen
\* on a graph without a cycle, and on a graph with one it exhausts the stack
DeepFreezeOfAcyclicGraph ==
    /\ freezer.pc = "RangeError" => OnCycle
    /\ freezer.pc = "returned" =>
            /\ ~OnCycle
            /\ ReachableFrom({freezer.obj}, freezer.edges) \subseteq freezer.frozen

-----------------------------------------------------------------------------
(* Claims about the Network, checked under SpecNetwork *)

\* C14: once stop() has returned, whatever calls of start(), addMinerNode()
\* and stop() came before it, no MINE_BLOCK is emitted and no miner node is
\* triggered
C14_QuietAfterStop ==
    /\ ~network.emittedAfterStop
    /\ ~network.triggeredAfterStop

\* What holds of the code: once stop() has returned no miner node is
\* triggered, and the timers left are those of the calls of start() whose id
\* a later start() replaced
NoNodeTriggeredAfterStop ==
    /\ ~network.triggeredAfterStop
    /\ network.stopped => network.listeners = {} /\ network.intervalId \notin network.timers

====
